---------------------------- MODULE Spec2Model ----------------------------
(***************************************************************************)
(* Model of blog-search.py: a CLI that scrapes blog post links, stores one *)
(* embedding document per URL in a Couchbase collection, and answers       *)
(* queries by vector search.                                               *)
(*                                                                         *)
(* Three specifications share the variables:                               *)
(*   Spec          main(): scrape and search invocations over one store    *)
(*   SpecSearch    search_blog_posts() over a store that holds more        *)
(*                 documents than the search limit                         *)
(*   SpecClassify  the anchor loop of fetch_blog_links() on character      *)
(*                 sequences                                               *)
(***************************************************************************)
EXTENDS Naturals, Sequences, FiniteSets

VARIABLES
    store,          \* the Couchbase collection: key -> document
    pc,             \* position of the running invocation
    exit,           \* "running", "ok" (returned normally), "error" (uncaught exception)
    mode,           \* which branch main() took: "none", "scrape", "search", "help"
    links,          \* scrape_and_store: the list fetch_blog_links returned
    i,              \* scrape_and_store: enumerate index (1-based)
    embedding,      \* local variable `embedding` of scrape_and_store / search_blog_posts
    outcome,        \* per link: Discovered, EmbeddingRequested, Skipped, Stored, Failed
    existsResult,   \* per link: what document_exists did: none, true, false, raise
    nEmbed,         \* generate_embedding calls made by this invocation
    nStore,         \* store_embedding calls made by this invocation
    renderFailed,   \* fetch_blog_links printed "Error in fetch_blog_links" and returned []
    storeAtStart,   \* the collection as it was when this invocation started
    written,        \* URLs for which store_embedding has ever succeeded
    prev,           \* how the latest scrape run ended: none, clean, failed, crashed
    secondPass,     \* the scrape run before this one returned, and this one fetched the same list
    firstClean,     \* ... and that earlier run ended with no item Failed
    rows,           \* search_blog_posts: result.rows(), ids in rank order
    totalRows,      \* search_blog_posts: metrics().total_rows()
    r,              \* search_blog_posts: index of the row being printed
    presented,      \* search_blog_posts: the result lines printed, in order
    joinFailed,     \* search_blog_posts: indices of rows whose document fetch raised
    totalReported,  \* search_blog_posts: the "Total results" line was printed
    searchFailed,   \* search_blog_posts: the outer except printed a traceback
    BASE_URL,       \* scheme://netloc of BLOG_IFRAME_URL
    all_anchors,    \* fetch_blog_links: soup.find_all("a"), as (href, text) records
    n,              \* fetch_blog_links: index of the anchor the loop is at
    found,          \* fetch_blog_links: local list `links` while the loop runs
    fetched,        \* fetch_blog_links: the value returned
    loopRaised      \* fetch_blog_links: the loop raised and the except returned []

scrapeVars == <<links, i, outcome, existsResult, nEmbed, nStore, renderFailed,
                prev, secondPass, firstClean>>
searchVars == <<rows, totalRows, r, presented, joinFailed, totalReported, searchFailed>>
classifyVars == <<BASE_URL, all_anchors, n, found, fetched, loopRaised>>
vars == <<store, pc, exit, mode, embedding, storeAtStart, written,
          scrapeVars, searchVars, classifyVars>>

---------------------------------------------------------------------------
(* Bounds and input domains *)

MaxLinks == 3

URLS == {"u1", "u2"}
TITLES == {"t1", "t2"}

RECURSIVE SeqsUpTo(_, _)
SeqsUpTo(S, len) ==
    IF len = 0 THEN {<<>>}
    ELSE LET shorter == SeqsUpTo(S, len - 1)
         IN  shorter \cup {Append(s, x) : s \in {t \in shorter : Len(t) = len - 1}, x \in S}

\* What fetch_blog_links can return: (full_url, title) tuples, duplicates kept.
LinkLists == SeqsUpTo(URLS \X TITLES, MaxLinks)

---------------------------------------------------------------------------
(* The collection and the functions over it *)

EmptyStore == [k \in {} |-> <<>>]

\* collection.get(key): the document, DocumentNotFoundException, or any
\* other failure of the lookup (timeout, authentication, ...).
CollectionGet(st, key, fault) ==
    IF fault THEN [exc |-> "CouchbaseException", doc |-> <<>>]
    ELSE IF key \in DOMAIN st THEN [exc |-> "none", doc |-> st[key]]
    ELSE [exc |-> "DocumentNotFoundException", doc |-> <<>>]

document_exists_always_false(st, url, fault) ==
    IF fault THEN "raise" ELSE "false"

\* document_exists: True when the get returns, False on
\* DocumentNotFoundException; any other exception is not caught.
document_exists(st, url, fault) ==
    LET res == CollectionGet(st, url, fault)
    IN  IF res.exc = "none" THEN "true"
        ELSE IF res.exc = "DocumentNotFoundException" THEN "false"
        ELSE "raise"

\* generate_embedding(text): response.data[0].embedding, one vector per text.
generate_embedding(text) == <<"embedding", text>>

Doc_wrong_type(url, title, emb) ==
    [type |-> "blog", url |-> url, title |-> title, embedding |-> emb]

\* The document store_embedding builds.
Doc(url, title, emb) ==
    [type |-> "blog_post", url |-> url, title |-> title, embedding |-> emb]

CollectionUpsert_dropped(st, key, doc) == st

\* collection.upsert(key, doc): insert, or replace the document at key.
CollectionUpsert(st, key, doc) ==
    [k \in DOMAIN st \cup {key} |-> IF k = key THEN doc ELSE st[k]]

\* store_embedding(url, title, embedding)
store_embedding(st, url, title, emb) == CollectionUpsert(st, url, Doc(url, title, emb))

---------------------------------------------------------------------------
(* Initial state: module import done (clients connected), nothing invoked *)

ProcessIdle ==
    /\ pc = "idle"
    /\ exit = "ok"
    /\ mode = "none"
    /\ embedding = <<>>
    /\ links = <<>> /\ i = 1 /\ outcome = <<>> /\ existsResult = <<>>
    /\ nEmbed = 0 /\ nStore = 0 /\ renderFailed = FALSE
    /\ prev = "none" /\ secondPass = FALSE /\ firstClean = FALSE
    /\ rows = <<>> /\ totalRows = 0 /\ r = 1 /\ presented = <<>>
    /\ joinFailed = {} /\ totalReported = FALSE /\ searchFailed = FALSE

ClassifierIdle ==
    /\ BASE_URL = <<>> /\ all_anchors = <<>> /\ n = 1
    /\ found = <<>> /\ fetched = <<>> /\ loopRaised = FALSE

Init ==
    /\ store = EmptyStore
    /\ storeAtStart = EmptyStore
    /\ written = {}
    /\ ProcessIdle
    /\ ClassifierIdle

---------------------------------------------------------------------------
(* main(): one CLI invocation at a time; the collection outlives it *)

\* A fresh process: every local is new, the collection is as the last
\* invocation left it.  links/prev are kept until the next fetch only to
\* compare this run's list with the previous run's.
StartProcess(m, p, e) ==
    /\ pc = "idle"
    /\ pc' = p
    /\ mode' = m
    /\ exit' = e
    /\ storeAtStart' = store
    /\ embedding' = <<>>
    /\ i' = 1 /\ outcome' = <<>> /\ existsResult' = <<>>
    /\ nEmbed' = 0 /\ nStore' = 0 /\ renderFailed' = FALSE
    /\ secondPass' = FALSE /\ firstClean' = FALSE
    /\ rows' = <<>> /\ totalRows' = 0 /\ r' = 1 /\ presented' = <<>>
    /\ joinFailed' = {} /\ totalReported' = FALSE /\ searchFailed' = FALSE
    /\ UNCHANGED <<store, written, links, prev, classifyVars>>

\* args.scrape
MainScrape == StartProcess("scrape", "fetch", "running")

\* args.search (a non-empty query string)
MainSearch == StartProcess("search", "s_embed", "running")

\* neither: parser.print_help(), main returns
MainHelp == StartProcess("help", "idle", "ok")

---------------------------------------------------------------------------
(* scrape_and_store *)

Url(j) == links[j][1]
Title(j) == links[j][2]

SetLinks(ls) ==
    /\ links' = ls
    /\ outcome' = [j \in 1..Len(ls) |-> "Discovered"]
    /\ existsResult' = [j \in 1..Len(ls) |-> "none"]
    /\ i' = 1
    /\ pc' = "check"

\* links = fetch_blog_links(): the browser started, the page loaded, the
\* anchor loop returned its list.
FetchBlogLinksOk ==
    /\ pc = "fetch"
    /\ \E ls \in LinkLists :
          /\ SetLinks(ls)
          /\ secondPass' = (prev \in {"clean", "failed"} /\ ls = links)
          /\ firstClean' = (prev = "clean" /\ ls = links)
    /\ UNCHANGED <<store, exit, mode, embedding, storeAtStart, written,
                   nEmbed, nStore, renderFailed, prev, searchVars, classifyVars>>

\* start_headless_browser() or driver.get() raised: the except of
\* fetch_blog_links prints the error and returns [].
FetchBlogLinksRenderFailure ==
    /\ pc = "fetch"
    /\ SetLinks(<<>>)
    /\ renderFailed' = TRUE
    /\ UNCHANGED <<store, exit, mode, embedding, storeAtStart, written,
                   nEmbed, nStore, prev, secondPass, firstClean,
                   searchVars, classifyVars>>

\* The item is done: the for loop moves to the next link.
NextItem(result) ==
    /\ outcome' = [outcome EXCEPT ![i] = result]
    /\ i' = i + 1
    /\ pc' = "check"

\* An exception nothing catches: traceback, the process exits with status 1.
Crash ==
    /\ pc' = "idle"
    /\ exit' = "error"

CheckDocumentExists_ungated ==
    /\ pc = "check" /\ i <= Len(links)
    /\ existsResult' = [existsResult EXCEPT ![i] = document_exists(store, Url(i), FALSE)]
    /\ outcome' = [outcome EXCEPT ![i] = "EmbeddingRequested"]
    /\ pc' = "embed"
    /\ UNCHANGED <<store, exit, mode, embedding, storeAtStart, written, links, i,
                   nEmbed, nStore, renderFailed, prev, secondPass, firstClean,
                   searchVars, classifyVars>>

\* if not document_exists(url): ... else: "Skipping (already exists in DB)"
CheckDocumentExists ==
    /\ pc = "check" /\ i <= Len(links)
    /\ LET res == document_exists(store, Url(i), FALSE)
       IN  /\ existsResult' = [existsResult EXCEPT ![i] = res]
           /\ IF res = "true"
              THEN NextItem("Skipped")
              ELSE /\ outcome' = [outcome EXCEPT ![i] = "EmbeddingRequested"]
                   /\ pc' = "embed"
                   /\ i' = i
    /\ UNCHANGED <<store, exit, mode, embedding, storeAtStart, written, links,
                   nEmbed, nStore, renderFailed, prev, secondPass, firstClean,
                   searchVars, classifyVars>>

\* collection.get raised something other than DocumentNotFoundException:
\* document_exists does not catch it and the call is outside the try of
\* scrape_and_store, so it leaves the loop, scrape_and_store and main.
CheckDocumentExistsRaises ==
    /\ pc = "check" /\ i <= Len(links)
    /\ LET res == document_exists(store, Url(i), TRUE)
       IN  /\ res = "raise"
           /\ existsResult' = [existsResult EXCEPT ![i] = res]
    /\ Crash
    /\ prev' = "crashed"
    /\ UNCHANGED <<store, mode, embedding, storeAtStart, written, links, i, outcome,
                   nEmbed, nStore, renderFailed, secondPass, firstClean,
                   searchVars, classifyVars>>

\* embedding = generate_embedding(title)
GenerateEmbeddingOk ==
    /\ pc = "embed"
    /\ embedding' = generate_embedding(Title(i))
    /\ nEmbed' = nEmbed + 1
    /\ pc' = "store"
    /\ UNCHANGED <<store, exit, mode, storeAtStart, written, links, i, outcome,
                   existsResult, nStore, renderFailed, prev, secondPass, firstClean,
                   searchVars, classifyVars>>

\* generate_embedding raised: except Exception prints "Failed to process".
GenerateEmbeddingRaises ==
    /\ pc = "embed"
    /\ nEmbed' = nEmbed + 1
    /\ NextItem("Failed")
    /\ UNCHANGED <<store, exit, mode, embedding, storeAtStart, written, links,
                   existsResult, nStore, renderFailed, prev, secondPass, firstClean,
                   searchVars, classifyVars>>

\* store_embedding(url, title, embedding); "Stored embedding for"
StoreEmbeddingOk ==
    /\ pc = "store"
    /\ store' = store_embedding(store, Url(i), Title(i), embedding)
    /\ written' = written \cup {Url(i)}
    /\ nStore' = nStore + 1
    /\ NextItem("Stored")
    /\ UNCHANGED <<exit, mode, embedding, storeAtStart, links,
                   existsResult, nEmbed, renderFailed, prev, secondPass, firstClean,
                   searchVars, classifyVars>>

\* collection.upsert raised: the same except, nothing written.
StoreEmbeddingRaises ==
    /\ pc = "store"
    /\ nStore' = nStore + 1
    /\ NextItem("Failed")
    /\ UNCHANGED <<store, exit, mode, embedding, storeAtStart, written, links,
                   existsResult, nEmbed, renderFailed, prev, secondPass, firstClean,
                   searchVars, classifyVars>>

\* The for loop is exhausted: scrape_and_store and main return.
ScrapeReturns ==
    /\ pc = "check" /\ i > Len(links)
    /\ pc' = "idle"
    /\ exit' = "ok"
    /\ prev' = IF renderFailed THEN "none"
               ELSE IF \E j \in 1..Len(links) : outcome[j] = "Failed" THEN "failed"
               ELSE "clean"
    /\ UNCHANGED <<store, mode, embedding, storeAtStart, written, links, i, outcome,
                   existsResult, nEmbed, nStore, renderFailed, secondPass, firstClean,
                   searchVars, classifyVars>>

Scrape ==
    \/ FetchBlogLinksOk
    \/ FetchBlogLinksRenderFailure
    \/ CheckDocumentExists
    \/ CheckDocumentExistsRaises
    \/ GenerateEmbeddingOk
    \/ GenerateEmbeddingRaises
    \/ StoreEmbeddingOk
    \/ StoreEmbeddingRaises
    \/ ScrapeReturns

---------------------------------------------------------------------------
(* search_blog_posts *)

\* SearchOptions(limit=5)
SearchLimit == 5

\* VectorQuery("embedding", embedding, num_candidates=10)
NumCandidates == 10

Min(x, y) == IF x <= y THEN x ELSE y

Take(s, len) == SubSeq(s, 1, Min(Len(s), len))

RECURSIVE InjectiveSeqs(_)
InjectiveSeqs(S) ==
    {<<>>} \cup UNION {{<<x>> \o t : t \in InjectiveSeqs(S \ {x})} : x \in S}

\* What the vector index can rank for a query: indexed documents nearest
\* first, each once, at most num_candidates of them.  The index holds keys of
\* stored documents and may lag behind the collection.
Rankings(st) == {s \in InjectiveSeqs(DOMAIN st) : Len(s) <= NumCandidates}

\* embedding = generate_embedding(query)
SearchEmbedOk ==
    /\ pc = "s_embed"
    /\ \E query \in TITLES : embedding' = generate_embedding(query)
    /\ nEmbed' = nEmbed + 1
    /\ pc' = "s_search"
    /\ UNCHANGED <<store, exit, mode, storeAtStart, written, links, i, outcome,
                   existsResult, nStore, renderFailed, prev, secondPass, firstClean,
                   searchVars, classifyVars>>

\* generate_embedding(query) raised: line 157 is outside the try.
SearchEmbedRaises ==
    /\ pc = "s_embed"
    /\ nEmbed' = nEmbed + 1
    /\ Crash
    /\ UNCHANGED <<store, mode, embedding, storeAtStart, written, links, i, outcome,
                   existsResult, nStore, renderFailed, prev, secondPass, firstClean,
                   searchVars, classifyVars>>

\* result = scope.search(index, request, SearchOptions(limit=5)); result.rows()
SearchExecuteOk ==
    /\ pc = "s_search"
    /\ \E ranked \in Rankings(store) :
          /\ rows' = Take(ranked, SearchLimit)
          /\ totalRows' = Len(ranked)
    /\ r' = 1
    /\ pc' = "s_rows"
    /\ UNCHANGED <<store, exit, mode, embedding, storeAtStart, written, scrapeVars,
                   presented, joinFailed, totalReported, searchFailed, classifyVars>>

\* The search raised: the outer except prints the traceback and the function
\* returns.
SearchExecuteRaises ==
    /\ pc = "s_search"
    /\ searchFailed' = TRUE
    /\ pc' = "idle"
    /\ exit' = "ok"
    /\ UNCHANGED <<store, mode, embedding, storeAtStart, written, scrapeVars,
                   rows, totalRows, r, presented, joinFailed, totalReported,
                   classifyVars>>

\* doc = collection.get(row.id).content_as[dict]; print title, url, score
SearchRowPrinted ==
    /\ pc = "s_rows" /\ r <= Len(rows)
    /\ LET res == CollectionGet(store, rows[r], FALSE)
       IN  /\ res.exc = "none"
           /\ presented' = Append(presented, [title |-> res.doc.title, url |-> res.doc.url])
    /\ r' = r + 1
    /\ UNCHANGED <<store, pc, exit, mode, embedding, storeAtStart, written, scrapeVars,
                   rows, totalRows, joinFailed, totalReported, searchFailed,
                   classifyVars>>

SearchRowJoinFailure_fatal ==
    /\ pc = "s_rows" /\ r <= Len(rows)
    /\ \E fault \in BOOLEAN : CollectionGet(store, rows[r], fault).exc # "none"
    /\ joinFailed' = joinFailed \cup {r}
    /\ searchFailed' = TRUE
    /\ pc' = "idle"
    /\ exit' = "ok"
    /\ UNCHANGED <<store, mode, embedding, storeAtStart, written, scrapeVars,
                   rows, totalRows, r, presented, totalReported, classifyVars>>

\* collection.get(row.id) raised: the inner except prints "Could not fetch
\* document for ID" and the loop goes on with the next row.
SearchRowJoinFailure ==
    /\ pc = "s_rows" /\ r <= Len(rows)
    /\ \E fault \in BOOLEAN : CollectionGet(store, rows[r], fault).exc # "none"
    /\ joinFailed' = joinFailed \cup {r}
    /\ r' = r + 1
    /\ UNCHANGED <<store, pc, exit, mode, embedding, storeAtStart, written, scrapeVars,
                   rows, totalRows, presented, totalReported, searchFailed,
                   classifyVars>>

\* print(f"Total results: {result.metadata().metrics().total_rows()}")
SearchReportsTotal ==
    /\ pc = "s_rows" /\ r > Len(rows)
    /\ totalReported' = TRUE
    /\ pc' = "idle"
    /\ exit' = "ok"
    /\ UNCHANGED <<store, mode, embedding, storeAtStart, written, scrapeVars,
                   rows, totalRows, r, presented, joinFailed, searchFailed,
                   classifyVars>>

Search ==
    \/ SearchEmbedOk
    \/ SearchEmbedRaises
    \/ SearchExecuteOk
    \/ SearchExecuteRaises
    \/ SearchRowPrinted
    \/ SearchRowJoinFailure
    \/ SearchReportsTotal

---------------------------------------------------------------------------
(* fetch_blog_links: the anchor loop, on character sequences *)

MaxAnchors == 2

\* len(title) < 5
MinTitleLen == 5

UpperCase == <<"A", "B", "C", "D", "E", "F", "G", "H", "I", "J", "K", "L", "M",
               "N", "O", "P", "Q", "R", "S", "T", "U", "V", "W", "X", "Y", "Z">>
LowerCase == <<"a", "b", "c", "d", "e", "f", "g", "h", "i", "j", "k", "l", "m",
               "n", "o", "p", "q", "r", "s", "t", "u", "v", "w", "x", "y", "z">>
Letters == {UpperCase[k] : k \in 1..26} \cup {LowerCase[k] : k \in 1..26}
Digits == {"0", "1", "2", "3", "4", "5", "6", "7", "8", "9"}
\* urllib.parse.scheme_chars
SchemeChars == Letters \cup Digits \cup {"+", "-", "."}

LowerChar(c) ==
    IF \E k \in 1..26 : UpperCase[k] = c
    THEN LowerCase[CHOOSE k \in 1..26 : UpperCase[k] = c]
    ELSE c

\* str.lower()
Lower(str) == [k \in 1..Len(str) |-> LowerChar(str[k])]

\* str.startswith(prefix)
StartsWith(str, prefix) ==
    /\ Len(str) >= Len(prefix)
    /\ SubSeq(str, 1, Len(prefix)) = prefix

\* sub in str
Contains(str, sub) ==
    /\ Len(str) >= Len(sub)
    /\ \E k \in 0..(Len(str) - Len(sub)) : SubSeq(str, k + 1, k + Len(sub)) = sub

Drop(str, k) == SubSeq(str, k + 1, Len(str))

\* str.strip(), as get_text(strip=True) applies it to the anchor's text
RECURSIVE Strip(_)
Strip(str) ==
    IF str = <<>> THEN str
    ELSE IF str[1] = " " THEN Strip(Drop(str, 1))
    ELSE IF str[Len(str)] = " " THEN Strip(SubSeq(str, 1, Len(str) - 1))
    ELSE str

\* Index of the first ":" of url when what precedes it is a scheme, else 0
\* (urlsplit: url[0] a letter, every character before the colon a scheme
\* character).
SchemeEnd(url) ==
    IF \E k \in 2..Len(url) :
          /\ url[k] = ":"
          /\ url[1] \in Letters
          /\ \A j \in 1..(k - 1) : url[j] \in SchemeChars
    THEN CHOOSE k \in 2..Len(url) :
          /\ url[k] = ":"
          /\ \A j \in 1..(k - 1) : url[j] \in SchemeChars
    ELSE 0

\* The netloc of a reference that starts with "//": up to the first of / ? #
RECURSIVE NetlocOf(_)
NetlocOf(rest) ==
    IF rest = <<>> \/ rest[1] \in {"/", "?", "#"} THEN <<>>
    ELSE <<rest[1]>> \o NetlocOf(Drop(rest, 1))

HasChar(str, c) == \E k \in 1..Len(str) : str[k] = c

\* urljoin(base, url) for a base of the form scheme://netloc (BASE_URL has
\* no path) and a non-empty url without dot segments, query or fragment.
\* raised: urlsplit's ValueError("Invalid IPv6 URL") on a netloc with an
\* unmatched square bracket.
urljoin(base, url) ==
    LET se == SchemeEnd(url)
        bse == SchemeEnd(base)
        scheme == Lower(SubSeq(url, 1, se - 1))
        bscheme == Lower(SubSeq(base, 1, bse - 1))
        rest == IF se = 0 THEN url ELSE Drop(url, se)
        netloc == NetlocOf(Drop(rest, 2))
    IN  IF StartsWith(rest, <<"/", "/">>)
           /\ (HasChar(netloc, "[") # HasChar(netloc, "]"))
        THEN [raised |-> TRUE, url |-> <<>>]
        ELSE IF se # 0 /\ scheme # bscheme
        THEN [raised |-> FALSE, url |-> url]
        ELSE IF StartsWith(rest, <<"/", "/">>)
        THEN [raised |-> FALSE, url |-> bscheme \o <<":">> \o rest]
        ELSE IF rest = <<>>
        THEN [raised |-> FALSE, url |-> base]
        ELSE IF rest[1] = "/"
        THEN [raised |-> FALSE, url |-> base \o rest]
        ELSE [raised |-> FALSE, url |-> base \o <<"/">> \o rest]

S_http == <<"h", "t", "t", "p", ":", "/", "/">>
S_https == <<"h", "t", "t", "p", "s", ":", "/", "/">>
S_hash == <<"#">>
S_javascript == <<"j", "a", "v", "a", "s", "c", "r", "i", "p", "t", ":">>
S_blog == <<"b", "l", "o", "g">>
S_post == <<"p", "o", "s", "t">>
S_entry == <<"e", "n", "t", "r", "y">>
S_article == <<"a", "r", "t", "i", "c", "l", "e">>

\* href = anchor.get("href"); title = anchor.get_text(strip=True)
Href(anchor) == anchor.href
TitleOf(anchor) == Strip(anchor.text)

\* if not href or not title: continue / if len(title) < 5: continue /
\* if href.startswith("#") or href.startswith("javascript:"): continue
Skipped(anchor) ==
    \/ ~anchor.hasHref
    \/ Href(anchor) = <<>>
    \/ TitleOf(anchor) = <<>>
    \/ Len(TitleOf(anchor)) < MinTitleLen
    \/ StartsWith(Href(anchor), S_hash)
    \/ StartsWith(Href(anchor), S_javascript)

\* if not href.startswith(("http://", "https://")): full_url = urljoin(BASE_URL, href)
\* else: full_url = href
FullUrl(base, href) ==
    IF ~(StartsWith(href, S_http) \/ StartsWith(href, S_https))
    THEN urljoin(base, href)
    ELSE [raised |-> FALSE, url |-> href]

\* "blog" in full_url.lower() and ("post" in ... or "entry" in ... or "article" in ...)
LikelyBlogPost(full_url) ==
    /\ Contains(Lower(full_url), S_blog)
    /\ \/ Contains(Lower(full_url), S_post)
       \/ Contains(Lower(full_url), S_entry)
       \/ Contains(Lower(full_url), S_article)

HrefPrefixes == {<<>>, <<"/">>, <<"#">>, <<"j", "a", "v", "a", "s", "c", "r", "i", "p", "t", ":">>, <<"m", "a", "i", "l", "t", "o", ":">>,
                 <<"h", "t", "t", "p", "s", ":", "/", "/", "x", ".", "c", "o", "m", "/">>, <<"h", "t", "t", "p", ":", "/", "/", "x", ".", "c", "o", "m", "/">>, <<"/", "/", "y", ".", "c", "o", "m", "/">>, <<"/", "/", "[">>}
HrefBodies == {<<>>, <<"b", "l", "o", "g", "/", "p", "o", "s", "t">>, <<"B", "l", "o", "g", "/", "E", "n", "t", "r", "y">>, <<"n", "e", "w", "s", "/", "a", "r", "t", "i", "c", "l", "e">>}
AnchorTexts == {<<>>, <<" ", "a", "b", "c", "d", " ">>, <<"M", "y", " ", "N", "e", "w", " ", "P", "o", "s", "t">>}
BaseUrls == {<<"h", "t", "t", "p", "s", ":", "/", "/", "x", ".", "c", "o", "m">>, <<"h", "t", "t", "p", "s", ":", "/", "/", "b", "l", "o", "g", ".", "x", ".", "c", "o", "m">>}

\* The anchors of a rendered page: href absent, or a prefix and a body.
Anchors ==
    {[hasHref |-> FALSE, href |-> <<>>, text |-> t] : t \in AnchorTexts}
    \cup {[hasHref |-> TRUE, href |-> p \o b, text |-> t] :
            p \in HrefPrefixes, b \in HrefBodies, t \in AnchorTexts}

Pages == SeqsUpTo(Anchors, MaxAnchors)

\* The page is rendered and parsed; links = []
InitClassify ==
    /\ store = EmptyStore
    /\ storeAtStart = EmptyStore
    /\ written = {}
    /\ exit = "running" /\ mode = "scrape" /\ embedding = <<>>
    /\ links = <<>> /\ i = 1 /\ outcome = <<>> /\ existsResult = <<>>
    /\ nEmbed = 0 /\ nStore = 0 /\ renderFailed = FALSE
    /\ prev = "none" /\ secondPass = FALSE /\ firstClean = FALSE
    /\ rows = <<>> /\ totalRows = 0 /\ r = 1 /\ presented = <<>>
    /\ joinFailed = {} /\ totalReported = FALSE /\ searchFailed = FALSE
    /\ pc = "anchors"
    /\ BASE_URL \in BaseUrls
    /\ all_anchors \in Pages
    /\ n = 1 /\ found = <<>> /\ fetched = <<>> /\ loopRaised = FALSE

notClassifyVars == <<store, exit, mode, embedding, storeAtStart, written,
                     scrapeVars, searchVars>>

\* One of the three `continue` statements.
AnchorSkipped ==
    /\ pc = "anchors" /\ n <= Len(all_anchors)
    /\ Skipped(all_anchors[n])
    /\ n' = n + 1
    /\ UNCHANGED <<pc, BASE_URL, all_anchors, found, fetched, loopRaised, notClassifyVars>>

\* The link passes the filters but is not a likely blog post.
AnchorNotBlogPost ==
    /\ pc = "anchors" /\ n <= Len(all_anchors)
    /\ ~Skipped(all_anchors[n])
    /\ LET full == FullUrl(BASE_URL, Href(all_anchors[n]))
       IN  ~full.raised /\ ~LikelyBlogPost(full.url)
    /\ n' = n + 1
    /\ UNCHANGED <<pc, BASE_URL, all_anchors, found, fetched, loopRaised, notClassifyVars>>

\* links.append((full_url, title))
AnchorAppended ==
    /\ pc = "anchors" /\ n <= Len(all_anchors)
    /\ ~Skipped(all_anchors[n])
    /\ LET full == FullUrl(BASE_URL, Href(all_anchors[n]))
       IN  /\ ~full.raised /\ LikelyBlogPost(full.url)
           /\ found' = Append(found, <<full.url, TitleOf(all_anchors[n])>>)
    /\ n' = n + 1
    /\ UNCHANGED <<pc, BASE_URL, all_anchors, fetched, loopRaised, notClassifyVars>>

\* urljoin raised inside the try: except Exception prints the error and
\* fetch_blog_links returns [].
AnchorRaises ==
    /\ pc = "anchors" /\ n <= Len(all_anchors)
    /\ ~Skipped(all_anchors[n])
    /\ FullUrl(BASE_URL, Href(all_anchors[n])).raised
    /\ loopRaised' = TRUE
    /\ fetched' = <<>>
    /\ pc' = "returned"
    /\ UNCHANGED <<BASE_URL, all_anchors, n, found, notClassifyVars>>

\* return links
LoopReturns ==
    /\ pc = "anchors" /\ n > Len(all_anchors)
    /\ fetched' = found
    /\ pc' = "returned"
    /\ UNCHANGED <<BASE_URL, all_anchors, n, found, loopRaised, notClassifyVars>>

NextClassify ==
    \/ AnchorSkipped
    \/ AnchorNotBlogPost
    \/ AnchorAppended
    \/ AnchorRaises
    \/ LoopReturns

---------------------------------------------------------------------------
(* Specifications *)

Next == MainScrape \/ MainSearch \/ MainHelp \/ Scrape \/ Search

Spec == Init /\ [][Next]_vars

\* Six posts indexed by earlier scrape runs: more than the search limit.
Archive == {<<"d1", "T1">>, <<"d2", "T2">>, <<"d3", "T3">>,
            <<"d4", "T4">>, <<"d5", "T5">>, <<"d6", "T6">>}

ArchiveStore ==
    [k \in {a[1] : a \in Archive} |->
        LET a == CHOOSE b \in Archive : b[1] = k
        IN  Doc(a[1], a[2], generate_embedding(a[2]))]

InitSearch ==
    /\ store = ArchiveStore
    /\ storeAtStart = ArchiveStore
    /\ written = DOMAIN ArchiveStore
    /\ ProcessIdle
    /\ ClassifierIdle

NextSearch == MainSearch \/ Search

SpecSearch == InitSearch /\ [][NextSearch]_vars

SpecClassify == InitClassify /\ [][NextClassify]_vars

---------------------------------------------------------------------------
(* Claims *)

ScrapeEnded == mode = "scrape" /\ pc = "idle"

Items == DOMAIN outcome

\* The terminal states of the per-item state machine.
Terminal == {"Skipped", "Stored", "Failed"}

\* C1 as stated: a second scrape run over an unchanged list of links makes no
\* new write: every document_exists returns true, no embedding is generated,
\* store_embedding is not called and every item ends Skipped.
C1_SecondRunAllSkipped ==
    (ScrapeEnded /\ exit = "ok" /\ secondPass) =>
        /\ nEmbed = 0
        /\ nStore = 0
        /\ \A j \in Items : existsResult[j] = "true" /\ outcome[j] = "Skipped"

\* C1 amended: when the first run returned with no item Failed, the second
\* run over the same list generates no embedding, never
\* calls store_embedding and leaves the store as it was; every link whose
\* existence check returns gets true and ends Skipped.
C1_SecondRunAfterCleanRunWritesNothing ==
    (mode = "scrape" /\ secondPass /\ firstClean) =>
        /\ nEmbed = 0
        /\ nStore = 0
        /\ store = storeAtStart
        /\ \A j \in Items :
              /\ existsResult[j] \in {"none", "true", "raise"}
              /\ outcome[j] = (IF existsResult[j] = "true" THEN "Skipped" ELSE "Discovered")
        /\ (ScrapeEnded /\ exit = "ok") => \A j \in Items : outcome[j] = "Skipped"

\* A second run over two distinct URLs written by earlier runs ends with
\* both Skipped.
C1_Witness ==
    /\ ScrapeEnded /\ exit = "ok" /\ secondPass /\ firstClean
    /\ Len(links) >= 2
    /\ \E j, k \in Items : Url(j) # Url(k)
    /\ \A j \in Items : outcome[j] = "Skipped" /\ Url(j) \in written

\* C2: a failure of embedding generation or of the store write on one link
\* leaves that link Failed and every later link of the batch is still
\* processed to an outcome of its own.
C2_FailureNeverAbortsBatch ==
    ScrapeEnded =>
        \A j \in Items : outcome[j] = "Failed" =>
            \A k \in Items : k > j => outcome[k] \in Terminal

\* C3: a lookup that fails for a reason other than not-found does not make
\* the link count as absent (no embedding, no record) and is a per-item
\* error that is not fatal: the run does not end in an error and the
\* remaining links are processed.
C3_LookupFailureIsPerItem ==
    \A j \in DOMAIN existsResult : existsResult[j] = "raise" =>
        /\ outcome[j] \notin {"EmbeddingRequested", "Stored"}
        /\ exit # "error"
        /\ ScrapeEnded => \A k \in Items : k > j => outcome[k] \in Terminal

\* C4: a renderer failure during a scrape ends the invocation with an error,
\* not normally.
C4_RenderFailureEndsInError ==
    (ScrapeEnded /\ renderFailed) => exit = "error"

\* C5: store_embedding is called for a URL only while the store holds no
\* record for it, and no step replaces or removes an existing record, so a
\* record keeps the title and embedding first written.
C5_AtMostOneWritePerUrl ==
    /\ [](pc = "store" => Url(i) \notin DOMAIN store)
    /\ [][\A u \in DOMAIN store : u \in DOMAIN store' /\ store'[u] = store[u]]_vars

\* A batch held the same URL twice with different titles: the first was
\* Stored, the second Skipped, and the record holds the first title.
C5_Witness ==
    /\ mode = "scrape"
    /\ \E j, k \in Items :
          /\ j < k /\ Url(j) = Url(k) /\ Title(j) # Title(k)
          /\ outcome[j] = "Stored" /\ outcome[k] = "Skipped"
          /\ store[Url(j)].title = Title(j)
          /\ store[Url(j)].embedding = generate_embedding(Title(j))

\* C6: document_exists(url) returns false for every URL never written and
\* true from the state right after store_embedding succeeded for it.
C6_ExistsIffWritten ==
    /\ \A u \in URLS :
          document_exists(store, u, FALSE) = (IF u \in written THEN "true" ELSE "false")
    /\ mode = "scrape" =>
          \A j \in Items : outcome[j] = "Stored" =>
              document_exists(store, Url(j), FALSE) = "true"

\* Right after the Stored outcome of a link whose check had returned false,
\* with another URL still unwritten.
C6_Witness ==
    /\ mode = "scrape" /\ pc = "check" /\ i > 1
    /\ outcome[i - 1] = "Stored" /\ existsResult[i - 1] = "false"
    /\ document_exists(store, Url(i - 1), FALSE) = "true"
    /\ \E u \in URLS : u \notin written /\ document_exists(store, u, FALSE) = "false"

\* The anchor as the claim reads it: href present, non-empty, not starting
\* with "#" or "javascript:", visible text of at least 5 characters, resolved
\* URL lowercased containing "blog" and one of "post", "entry", "article".
Qualifies(base, anchor) ==
    /\ anchor.hasHref
    /\ anchor.href # <<>>
    /\ ~StartsWith(anchor.href, S_hash)
    /\ ~StartsWith(anchor.href, S_javascript)
    /\ Len(Strip(anchor.text)) >= 5
    /\ LET full == FullUrl(base, anchor.href)
       IN  /\ ~full.raised
           /\ Contains(Lower(full.url), S_blog)
           /\ \E word \in {S_post, S_entry, S_article} : Contains(Lower(full.url), word)

RECURSIVE QualifyingLinks(_, _)
QualifyingLinks(base, anchors) ==
    IF anchors = <<>> THEN <<>>
    ELSE LET rest == QualifyingLinks(base, Tail(anchors))
         IN  IF Qualifies(base, Head(anchors))
             THEN <<<<FullUrl(base, Head(anchors).href).url, Strip(Head(anchors).text)>>>> \o rest
             ELSE rest

\* C7: fetch_blog_links returns exactly the qualifying anchors, in document
\* order and with duplicates kept; every other anchor is left out.
C7_ReturnsExactlyQualifyingAnchors ==
    pc = "returned" => fetched = QualifyingLinks(BASE_URL, all_anchors)

RECURSIVE ExpectedPresented(_)
ExpectedPresented(k) ==
    IF k = 0 THEN <<>>
    ELSE IF k \in joinFailed THEN ExpectedPresented(k - 1)
    ELSE Append(ExpectedPresented(k - 1),
                [title |-> store[rows[k]].title, url |-> store[rows[k]].url])

\* C8: when the fetch of the stored record fails for a hit, only that hit is
\* dropped: the lines printed are the other hits in the order the search
\* returned them, at most 5, and the total-count line is printed.
C8_JoinFailureDropsOnlyThatHit ==
    /\ pc = "s_rows" => presented = ExpectedPresented(r - 1)
    /\ (mode = "search" /\ pc = "idle" /\ joinFailed # {}) =>
          /\ totalReported
          /\ presented = ExpectedPresented(Len(rows))
          /\ Len(presented) <= 5
          /\ Len(presented) = Len(rows) - Cardinality(joinFailed)

\* More candidates than the limit; a hit failed and later hits were printed.
C8_Witness ==
    /\ mode = "search" /\ pc = "idle" /\ totalReported
    /\ totalRows > SearchLimit /\ Len(rows) = SearchLimit
    /\ Cardinality(joinFailed) = 2 /\ 1 \in joinFailed /\ SearchLimit \notin joinFailed
    /\ Len(presented) = 3

\* C9: every link the classifier returned is processed once, in order, and
\* reaches exactly one of Skipped, Stored, Failed before the run ends.
C9_EveryLinkReachesTerminalState ==
    ScrapeEnded =>
        /\ Len(outcome) = Len(links)
        /\ \A j \in Items : outcome[j] \in Terminal

StoredRecord(j) ==
    [type |-> "blog_post", url |-> Url(j), title |-> Title(j),
     embedding |-> generate_embedding(Title(j))]

\* C10: the store changes only in the step that takes a scrape item to
\* Stored; nothing is ever removed; a search (or help) invocation leaves the
\* store as it found it; during and after a scrape run the store is the
\* store at its start plus one record {type, url, title, embedding} keyed by
\* url for each Stored item.
C10_StoreChangesOnlyByStored ==
    /\ [][store' # store =>
            /\ mode = "scrape" /\ pc = "store"
            /\ outcome[i] = "EmbeddingRequested" /\ outcome'[i] = "Stored"
            /\ \A k \in DOMAIN store : k \in DOMAIN store']_vars
    /\ [](mode # "scrape" => store = storeAtStart)
    /\ [](mode = "scrape" =>
            /\ DOMAIN store = DOMAIN storeAtStart \cup {Url(j) : j \in {k \in Items : outcome[k] = "Stored"}}
            /\ \A k \in DOMAIN storeAtStart : store[k] = storeAtStart[k]
            /\ \A j \in Items : outcome[j] = "Stored" => store[Url(j)] = StoredRecord(j))

\* One run that skipped an existing URL, failed once on a new URL and then
\* stored it.
C10_Witness ==
    /\ ScrapeEnded /\ exit = "ok"
    /\ storeAtStart # EmptyStore
    /\ \E a, b, c \in Items :
          outcome[a] = "Skipped" /\ outcome[b] = "Failed" /\ outcome[c] = "Stored"
    /\ store # storeAtStart

====
